---- MODULE Spec2Model ----
(***************************************************************************)
(* QuickShift (src/src/main.rs): move_directory_concurrent moves the       *)
(* entries of a source tree to a destination tree with three rayon         *)
(* workers, skipping what already exists at the destination.               *)
(*                                                                         *)
(* The two trees are modelled over one small universe of relative paths    *)
(* (a path is the sequence of its components, <<>> is the root).  A file's *)
(* content is a sequence of bytes; the file fs::copy has just created and  *)
(* not yet filled is the empty sequence.                                   *)
(*                                                                         *)
(* The build (cfg(windows) or not) and the volumes of the two roots are    *)
(* chosen in Init.  Each filesystem call of move_single_item is one step,  *)
(* so that the workers, and another process writing to the destination,    *)
(* interleave between an existence check and the call that relies on it.   *)
(* I/O failures that do not follow from the trees (a refused directory     *)
(* creation, an unreadable source, a copy that breaks off, a delete that   *)
(* fails, an unreadable directory entry) are injected, MaxFaults of them.  *)
(***************************************************************************)
EXTENDS Integers, Sequences, FiniteSets, TLC

(* ------------------------------ bounds --------------------------------- *)
\* external writes to the destination during the whole behaviour
MaxExt == 1
\* injected I/O faults (a copy that cannot open its source, a delete that fails,
\* a directory creation that is refused)
MaxFaults == 1
\* runs of move_directory_concurrent (each its own process, as in main)
MaxRuns == 2
\* entries beneath the destination root before the first run
MaxPre == 1

\* rayon::ThreadPoolBuilder::new().num_threads(3)
NumThreads == 3

(* ------------------------------ paths ---------------------------------- *)
Root == <<>>
Paths == { <<>>, <<"a">>, <<"a", "x">>, <<"b">> }

\* the directory that holds a root (for main's destination E:\dev, the drive)
Up == <<"..">>
Nodes == Paths \cup {Up}

\* walkdir yields a directory before its contents; siblings by name
WalkOrder == << <<>>, <<"a">>, <<"a", "x">>, <<"b">> >>

Parent(p) == IF p = Root THEN Up ELSE SubSeq(p, 1, Len(p) - 1)

Under(p) == { q \in Paths : Len(q) > Len(p) /\ SubSeq(q, 1, Len(p)) = p }

\* p and the directories above it
Ancestors(p) == { SubSeq(p, 1, i) : i \in 0..Len(p) } \cup {Up}

(* --------------------------- filesystem -------------------------------- *)
Kinds == { "none", "dir", "file", "other" }

None == [k |-> "none", d |-> <<>>]
Dir == [k |-> "dir", d |-> <<>>]
Other == [k |-> "other", d |-> <<>>]
File(bytes) == [k |-> "file", d |-> bytes]

\* the bytes of the source file at p, of a file that was at the destination
\* before the first run, and of a file an external writer creates
SrcData(p) == <<"src">> \o p
OldData == <<"old">>
ExtData == <<"ext">>

\* Path::exists
Exists(fs, p) == fs[p].k # "none"
\* Path::is_dir, Path::is_file
IsDir(fs, p) == fs[p].k = "dir"
IsFile(fs, p) == fs[p].k = "file"

\* the directory that holds p is there
ParentIsDir(fs, p) == fs[Parent(p)].k = "dir"

\* every entry lies in a directory
WellFormed(fs) == \A p \in Paths : Exists(fs, p) => ParentIsDir(fs, p)

\* fs::create_dir_all: creates p and the missing directories above it; fails,
\* creating nothing, when a component of the path is there and no directory
MkdirAll(fs, p) ==
  IF \A q \in Ancestors(p) : fs[q].k \in {"none", "dir"}
  THEN [q \in Nodes |-> IF q \in Ancestors(p) THEN Dir ELSE fs[q]]
  ELSE fs

\* CreateDirectoryW: creates p alone; fails when p is there or its parent is not
CreateDirectoryW(fs, p) ==
  IF fs[p].k = "none" /\ ParentIsDir(fs, p)
  THEN [fs EXCEPT ![p] = Dir]
  ELSE fs

\* the io::Error of create_dir_with_long_path_support, if any: "AlreadyExists"
\* when p itself is there, "other" when the path to it is not (CreateDirectoryW:
\* path not found; create_dir_all: a component is no directory)
CreateDirErr(win, fs, p) ==
  IF win
  THEN IF Exists(fs, p) THEN "AlreadyExists"
       ELSE IF ~ParentIsDir(fs, p) THEN "other" ELSE "ok"
  ELSE IF \A q \in Ancestors(p) : fs[q].k \in {"none", "dir"} THEN "ok"
       ELSE IF fs[p].k \notin {"none", "dir"} THEN "AlreadyExists" ELSE "other"

\* create_dir_with_long_path_support, by platform
CreateDir(win, fs, p) == IF win THEN CreateDirectoryW(fs, p) ELSE MkdirAll(fs, p)

\* fs::rename of the file at p succeeds: same volume, the source is a file, the
\* destination directory is there and the destination is no directory (an
\* existing destination file is replaced)
RenameOk(cross, s, d, p) ==
  /\ ~cross
  /\ s[p].k = "file"
  /\ ParentIsDir(d, p)
  /\ d[p].k # "dir"

\* fs::copy can open both ends: the destination directory is there and the
\* destination is no directory (an existing destination file is truncated)
CopyOpens(s, d, p) ==
  /\ s[p].k = "file"
  /\ ParentIsDir(d, p)
  /\ d[p].k # "dir"

\* (mutant) fs::remove_dir_all in its place: the directory goes with its contents
RemoveDirAllOk(fs, p) == fs[p].k = "dir"

\* fs::remove_dir: only an empty directory goes
RemoveDirOk(fs, p) == fs[p].k = "dir" /\ \A q \in Under(p) : fs[q].k = "none"

(* ------------------------------ state ---------------------------------- *)
VARIABLES
  windows,      \* built with cfg(windows)
  crossVolume,  \* source and destination are on different volumes
  src, dst,     \* the two trees: path -> entry
  pc,           \* "idle", "enumerated", "dispatch", "returned"
  run,          \* number of the current run
  tasks,        \* the enumerated tasks, as relative paths
  toProcess,    \* tasks_to_process
  total, skipped,
  results,      \* per position of toProcess: "todo", "running", "ok", "err"
  wtask, wpc,   \* per worker: position in toProcess (0: none) and step
  pos,          \* the progress bar's position
  result,       \* "none", "ok", "InvalidSource", "EnumerationError", "TaskError"
  errTask,      \* position in toProcess of the task whose error is returned
  src0, dst0,   \* the trees when the current run began
  ext, faults,  \* external writes and injected faults so far
  removed,      \* this run removed the source root
  failOrder,    \* positions of the failed tasks, in the order they failed
  prev,         \* the previous run: its result, how many entries it created,
                \* whether the destination held nothing when it began
  hist          \* per position of toProcess, what its move_single_item call
                \* did: how often it was called, whether it skipped at its
                \* first check ("skip1"), went on ("call"), entered the copy
                \* fallback or had its copy fail, the destination entry its
                \* first check saw, whether a directory creation or the delete
                \* of the source failed

vars == << windows, crossVolume, src, dst, pc, run, tasks, toProcess, total,
           skipped, results, wtask, wpc, pos, result, errTask, src0,
           dst0, ext, faults, removed, failOrder, prev, hist >>

env == << windows, crossVolume >>
ctl == << tasks, toProcess, total, skipped >>
workers == << results, wtask, wpc, pos, failOrder, hist >>

Workers == 1..NumThreads

(* --------------------------- initial trees ----------------------------- *)
\* a source: any tree of directories, files and other entries (a broken
\* symlink, a FIFO); the root may be missing or be a file
SrcTrees ==
  { t \in [Nodes -> Kinds] :
      /\ t[Up] = "dir"
      /\ t[Root] \in {"none", "dir", "file"}
      /\ \A p \in Paths \ {Root} : t[p] # "none" => t[Parent(p)] = "dir" }

\* a destination: the root missing (with or without the directory that is to
\* hold it) or a directory holding at most MaxPre earlier entries
DstTrees ==
  { t \in [Nodes -> {"none", "dir", "file"}] :
      /\ t[Up] \in {"none", "dir"}
      /\ t[Root] \in {"none", "dir"}
      /\ \A p \in Paths : t[p] # "none" => t[Parent(p)] = "dir"
      /\ Cardinality({ p \in Paths \ {Root} : t[p] # "none" }) <= MaxPre }

SrcEntry(t, p) ==
  CASE t[p] = "file" -> File(SrcData(p))
    [] t[p] = "dir" -> Dir
    [] t[p] = "other" -> Other
    [] OTHER -> None

DstEntry(t, p) ==
  CASE t[p] = "file" -> File(OldData)
    [] t[p] = "dir" -> Dir
    [] OTHER -> None

NoPrev == [result |-> "none", created |-> 0, fresh |-> FALSE]

\* a call of move_single_item that has not begun
NoHist == [calls |-> 0, via |-> "none", seen |-> None, dirErr |-> FALSE,
           delErr |-> FALSE]

Init ==
  /\ windows \in BOOLEAN
  /\ crossVolume \in BOOLEAN
  /\ \E t \in SrcTrees : src = [p \in Nodes |-> SrcEntry(t, p)]
  /\ \E t \in DstTrees : dst = [p \in Nodes |-> DstEntry(t, p)]
  /\ pc = "idle"
  /\ run = 1
  /\ tasks = <<>>
  /\ toProcess = <<>>
  /\ total = 0
  /\ skipped = 0
  /\ results = <<>>
  /\ wtask = [w \in Workers |-> 0]
  /\ wpc = [w \in Workers |-> "idle"]
  /\ pos = 0
  /\ result = "none"
  /\ errTask = 0
  /\ src0 = src
  /\ dst0 = dst
  /\ ext = 0
  /\ faults = 0
  /\ removed = FALSE
  /\ failOrder = <<>>
  /\ prev = NoPrev
  /\ hist = <<>>

(* ------------------- move_directory_concurrent: scan ------------------- *)
\* walkdir::WalkDir::new(src_dir): the root itself, then everything beneath it
Walk(fs) == SelectSeq(WalkOrder, LAMBDA p : Exists(fs, p))

\* (mutant) a validation that lets every source through
NeverInvalid(fs) == FALSE

\* lines 56-62: the source root is missing or is no directory
InvalidSource(fs) == ~Exists(fs, Root) \/ ~IsDir(fs, Root)

\* lines 56-88: validate the source, enumerate, handle the empty task list
Enumerate ==
  /\ pc = "idle"
  /\ IF InvalidSource(src)
     THEN /\ pc' = "returned"
          /\ result' = "InvalidSource"
          /\ UNCHANGED << tasks, total, dst, faults >>
     ELSE \/ IF Walk(src) = <<>>
             THEN /\ dst' = MkdirAll(dst, Root)
                  /\ pc' = "returned"
                  /\ result' = "ok"
                  /\ UNCHANGED << tasks, total, faults >>
             ELSE /\ tasks' = Walk(src)
                  /\ total' = Len(Walk(src))
                  /\ pc' = "enumerated"
                  /\ UNCHANGED << result, dst, faults >>
          \* line 68: an entry cannot be read
          \/ /\ faults < MaxFaults
             /\ faults' = faults + 1
             /\ pc' = "returned"
             /\ result' = "EnumerationError"
             /\ UNCHANGED << tasks, total, dst >>
  /\ UNCHANGED << env, src, run, toProcess, skipped, workers, errTask, src0,
                  dst0, ext, removed, prev >>

\* (mutant) a filter that tests the destination for directories only
KeepDirsOnly(s, d, p) ==
  IF IsDir(s, p) THEN ~Exists(d, p) ELSE TRUE

\* the filter's closure, lines 93-101
Keep(s, d, p) ==
  IF IsDir(s, p) THEN ~Exists(d, p)
  ELSE IF IsFile(s, p) THEN ~Exists(d, p)
  ELSE TRUE

\* lines 90-128: filter, count, short-circuit or start the parallel map
Filter ==
  /\ pc = "enumerated"
  /\ LET tp == SelectSeq(tasks, LAMBDA p : Keep(src, dst, p)) IN
       /\ toProcess' = tp
       /\ skipped' = total - Len(tp)
       /\ results' = [i \in 1..Len(tp) |-> "todo"]
       /\ hist' = [i \in 1..Len(tp) |-> NoHist]
       /\ IF Len(tp) = 0
          THEN pc' = "returned" /\ result' = "ok"
          ELSE pc' = "dispatch" /\ UNCHANGED result
  /\ UNCHANGED << env, src, dst, run, tasks, total, wtask, wpc, pos,
                  errTask, src0, dst0, ext, faults, removed, failOrder, prev >>

(* ---------------------- move_single_item, by step ---------------------- *)
TaskOf(w) == toProcess[wtask[w]]

\* the closure returns Err: no progress signal, the worker is free again
Fail(w) ==
  /\ results' = [results EXCEPT ![wtask[w]] = "err"]
  /\ failOrder' = Append(failOrder, wtask[w])
  /\ wtask' = [wtask EXCEPT ![w] = 0]
  /\ wpc' = [wpc EXCEPT ![w] = "idle"]

Goto(w, step) ==
  /\ wpc' = [wpc EXCEPT ![w] = step]
  /\ UNCHANGED << results, wtask, failOrder >>

\* (mutant) a par_iter that may hand out any task, taken before or not
AnyTask(i) == TRUE

\* line 131: par_iter hands out a task nobody has taken
Unclaimed(i) == results[i] = "todo"

\* (mutant) a first check that, finding the destination, replaces it
Skip1Overwrites(w, i, h) ==
  /\ wpc' = [wpc EXCEPT ![w] = "signal"]
  /\ hist' = [hist EXCEPT ![i] = [h EXCEPT !.via = "skip1"]]
  /\ dst' = [dst EXCEPT ![toProcess[i]] = src[toProcess[i]]]
  /\ UNCHANGED faults

\* lines 168-170: the destination exists, return Ok at once
Skip1(w, i, h) ==
  /\ wpc' = [wpc EXCEPT ![w] = "signal"]
  /\ hist' = [hist EXCEPT ![i] = [h EXCEPT !.via = "skip1"]]
  /\ UNCHANGED << dst, faults >>

\* a free worker takes a task nobody has taken (the lowest free worker, the
\* workers being interchangeable) and runs lines 168-175: the first existence
\* check and the branch on the source's type; a directory is created at once,
\* its creation's outcome ignored
Start(w, i) ==
  /\ pc = "dispatch"
  /\ wtask[w] = 0
  /\ \A v \in Workers : v < w => wtask[v] # 0
  /\ i \in 1..Len(toProcess)
  /\ Unclaimed(i)
  /\ results' = [results EXCEPT ![i] = "running"]
  /\ wtask' = [wtask EXCEPT ![w] = i]
  /\ LET p == toProcess[i]
         h == [hist[i] EXCEPT !.calls = @ + 1, !.seen = dst[p]] IN
       IF Exists(dst, p)
       THEN Skip1(w, i, h)
       ELSE IF IsDir(src, p)
       THEN /\ wpc' = [wpc EXCEPT ![w] = "signal"]
            /\ \/ /\ dst' = CreateDir(windows, dst, p)
                  /\ hist' = [hist EXCEPT ![i] =
                       [h EXCEPT !.via = "call",
                                 !.dirErr = CreateDirErr(windows, dst, p) = "other"]]
                  /\ UNCHANGED faults
               \/ /\ faults < MaxFaults
                  /\ faults' = faults + 1
                  /\ hist' = [hist EXCEPT ![i] =
                       [h EXCEPT !.via = "call", !.dirErr = TRUE]]
                  /\ UNCHANGED dst
       ELSE IF IsFile(src, p)
       THEN /\ wpc' = [wpc EXCEPT ![w] = "mkparent"]
            /\ hist' = [hist EXCEPT ![i] = [h EXCEPT !.via = "call"]]
            /\ UNCHANGED << dst, faults >>
       ELSE /\ wpc' = [wpc EXCEPT ![w] = "signal"]
            /\ hist' = [hist EXCEPT ![i] = [h EXCEPT !.via = "call"]]
            /\ UNCHANGED << dst, faults >>
  /\ UNCHANGED << env, src, pc, run, ctl, pos, result, errTask, src0,
                  dst0, ext, removed, failOrder, prev >>

\* lines 176-178: create the destination's parent, outcome ignored
MkParent(w) ==
  /\ wpc[w] = "mkparent"
  /\ \/ /\ dst' = CreateDir(windows, dst, Parent(TaskOf(w)))
        /\ hist' = [hist EXCEPT ![wtask[w]].dirErr =
                      CreateDirErr(windows, dst, Parent(TaskOf(w))) = "other"]
        /\ UNCHANGED faults
     \/ /\ faults < MaxFaults
        /\ faults' = faults + 1
        /\ hist' = [hist EXCEPT ![wtask[w]].dirErr = TRUE]
        /\ UNCHANGED dst
  /\ Goto(w, "check2")
  /\ UNCHANGED << env, src, pc, run, ctl, pos, result, errTask, src0,
                  dst0, ext, removed, prev >>

\* lines 180-182: the second existence check
Check2(w) ==
  /\ wpc[w] = "check2"
  /\ Goto(w, IF Exists(dst, TaskOf(w)) THEN "signal" ELSE "rename")
  /\ UNCHANGED hist
  /\ UNCHANGED << env, src, dst, pc, run, ctl, pos, result, errTask,
                  src0, dst0, ext, faults, removed, prev >>

\* line 185: fs::rename
Rename(w) ==
  /\ wpc[w] = "rename"
  /\ LET p == TaskOf(w) IN
       IF RenameOk(crossVolume, src, dst, p)
       THEN /\ dst' = [dst EXCEPT ![p] = src[p]]
            /\ src' = [src EXCEPT ![p] = None]
            /\ UNCHANGED hist
            /\ Goto(w, "signal")
       ELSE /\ UNCHANGED << src, dst >>
            /\ UNCHANGED hist
            /\ Goto(w, "check3")
  /\ UNCHANGED << env, pc, run, ctl, pos, result, errTask, src0, dst0,
                  ext, faults, removed, prev >>

\* line 188: the check before the copy; line 200 follows either way
Check3(w) ==
  /\ wpc[w] = "check3"
  /\ Goto(w, IF ~Exists(dst, TaskOf(w)) THEN "copy" ELSE "remove")
  /\ hist' = [hist EXCEPT ![wtask[w]].via =
                IF ~Exists(dst, TaskOf(w)) THEN "fallback" ELSE @]
  /\ UNCHANGED << env, src, dst, pc, run, ctl, pos, result, errTask,
                  src0, dst0, ext, faults, removed, prev >>

\* line 189: fs::copy opens the source and creates or truncates the
\* destination; any failure is "Copy failed" (fs::copy never reports
\* AlreadyExists)
Copy(w) ==
  /\ wpc[w] = "copy"
  /\ LET p == TaskOf(w) IN
       \/ /\ CopyOpens(src, dst, p)
          /\ dst' = [dst EXCEPT ![p] = File(<<>>)]
          /\ Goto(w, "copying")
          /\ UNCHANGED << faults, hist >>
       \/ /\ ~CopyOpens(src, dst, p)
          /\ Fail(w)
          /\ hist' = [hist EXCEPT ![wtask[w]].via = "copyFailed"]
          /\ UNCHANGED << dst, faults >>
       \/ /\ faults < MaxFaults
          /\ faults' = faults + 1
          /\ Fail(w)
          /\ hist' = [hist EXCEPT ![wtask[w]].via = "copyFailed"]
          /\ UNCHANGED dst
  /\ UNCHANGED << env, src, pc, run, ctl, pos, result, errTask, src0,
                  dst0, ext, removed, prev >>

\* fs::copy writes the bytes, or fails half way and leaves what it wrote
Copying(w) ==
  /\ wpc[w] = "copying"
  /\ LET p == TaskOf(w) IN
       \/ /\ dst' = [dst EXCEPT ![p] = File(src[p].d)]
          /\ Goto(w, "remove")
          /\ UNCHANGED << faults, hist >>
       \/ /\ faults < MaxFaults
          /\ faults' = faults + 1
          /\ Fail(w)
          /\ hist' = [hist EXCEPT ![wtask[w]].via = "copyFailed"]
          /\ UNCHANGED dst
  /\ UNCHANGED << env, src, pc, run, ctl, pos, result, errTask, src0,
                  dst0, ext, removed, prev >>

\* (mutant) a delete of the source whose failure fails the task
RemoveStrict(w) ==
  /\ wpc[w] = "remove"
  /\ LET p == TaskOf(w) IN
       \/ /\ src' = [src EXCEPT ![p] = IF IsFile(src, p) THEN None ELSE src[p]]
          /\ Goto(w, "signal")
          /\ UNCHANGED << faults, hist >>
       \/ /\ faults < MaxFaults
          /\ faults' = faults + 1
          /\ hist' = [hist EXCEPT ![wtask[w]].delErr = TRUE]
          /\ Fail(w)
          /\ UNCHANGED src
  /\ UNCHANGED << env, dst, pc, run, ctl, pos, result, errTask, src0,
                  dst0, ext, removed, prev >>

\* line 200: fs::remove_file(src), outcome ignored
Remove(w) ==
  /\ wpc[w] = "remove"
  /\ LET p == TaskOf(w) IN
       \/ /\ src' = [src EXCEPT ![p] = IF IsFile(src, p) THEN None ELSE src[p]]
          /\ UNCHANGED << faults, hist >>
       \/ /\ faults < MaxFaults
          /\ faults' = faults + 1
          /\ hist' = [hist EXCEPT ![wtask[w]].delErr = TRUE]
          /\ UNCHANGED src
  /\ Goto(w, "signal")
  /\ UNCHANGED << env, dst, pc, run, ctl, pos, result, errTask, src0,
                  dst0, ext, removed, prev >>

\* (mutant) an increment without the mutex: of two workers that signal at the
\* same time, both may read the same position, and one increment is lost
SignalLost(w) ==
  /\ wpc[w] = "signal"
  /\ \/ pos' = pos + 1
     \/ /\ \E v \in Workers : v # w /\ wpc[v] = "signal"
        /\ pos' = pos
  /\ results' = [results EXCEPT ![wtask[w]] = "ok"]
  /\ wtask' = [wtask EXCEPT ![w] = 0]
  /\ wpc' = [wpc EXCEPT ![w] = "idle"]
  /\ UNCHANGED << env, src, dst, pc, run, ctl, result, errTask, src0, dst0,
                  ext, faults, removed, failOrder, prev, hist >>

\* lines 137-142: the closure's result is Ok: take the progress bar's mutex,
\* guard.inc(1), drop the guard, return the result (the mutex makes the
\* increment one step with respect to the other workers)
Signal(w) ==
  /\ wpc[w] = "signal"
  /\ pos' = pos + 1
  /\ results' = [results EXCEPT ![wtask[w]] = "ok"]
  /\ wtask' = [wtask EXCEPT ![w] = 0]
  /\ wpc' = [wpc EXCEPT ![w] = "idle"]
  /\ UNCHANGED << env, src, dst, pc, run, ctl, result, errTask, src0, dst0,
                  ext, faults, removed, failOrder, prev, hist >>

(* ------------- move_directory_concurrent: collect, clean up ------------ *)
Failed == { i \in 1..Len(results) : results[i] = "err" }

\* (mutant) a collect that stops waiting at the first Err
DoneOrFailed ==
  Failed # {} \/ \A i \in 1..Len(results) : results[i] \in {"ok", "err"}

\* collect() of lines 131-144 returns when every closure has returned
AllDone == \A i \in 1..Len(results) : results[i] \in {"ok", "err"}

\* (mutant) the error of the task that failed first in time
FirstFailedInTime(rs) == failOrder[1]

\* the scan of lines 147-152: the first Err in the order of the list
FirstErr(rs) ==
  CHOOSE i \in 1..Len(rs) :
    rs[i] = "err" /\ \A j \in 1..Len(rs) : rs[j] = "err" => i <= j

\* lines 146-163: collect has every result; return the first error, or remove
\* the source root if it is empty and return Ok
Finish ==
  /\ pc = "dispatch"
  /\ AllDone
  /\ pc' = "returned"
  /\ IF Failed # {}
     THEN /\ result' = "TaskError"
          /\ errTask' = FirstErr(results)
          /\ UNCHANGED << src, removed >>
     ELSE /\ result' = "ok"
          /\ UNCHANGED errTask
          /\ IF RemoveDirOk(src, Root)
             THEN src' = [src EXCEPT ![Root] = None] /\ removed' = TRUE
             ELSE UNCHANGED << src, removed >>
  /\ UNCHANGED << env, dst, run, ctl, workers, src0, dst0, ext, faults, prev >>

(* ---------------------------- environment ------------------------------ *)
\* what the finished run put beneath the destination root
Created == { p \in Paths \ {Root} : ~Exists(dst0, p) /\ Exists(dst, p) }

\* the program is started again on the same pair of directories
NextRun ==
  /\ pc = "returned"
  /\ run < MaxRuns
  /\ run' = run + 1
  /\ pc' = "idle"
  /\ prev' = [result |-> result, created |-> Cardinality(Created),
              fresh |-> \A p \in Paths \ {Root} : ~Exists(dst0, p)]
  /\ tasks' = <<>>
  /\ toProcess' = <<>>
  /\ total' = 0
  /\ skipped' = 0
  /\ results' = <<>>
  /\ pos' = 0
  /\ result' = "none"
  /\ errTask' = 0
  /\ src0' = src
  /\ dst0' = dst
  /\ removed' = FALSE
  /\ failOrder' = <<>>
  /\ hist' = <<>>
  /\ UNCHANGED << env, src, dst, wtask, wpc, ext, faults >>

\* another process creates a file or a directory at a free destination path
\* while the engine runs
ExtWrite(p, e) ==
  /\ pc \in {"enumerated", "dispatch"}
  /\ ext < MaxExt
  /\ ~Exists(dst, p)
  /\ ParentIsDir(dst, p)
  /\ dst' = [dst EXCEPT ![p] = e]
  /\ ext' = ext + 1
  /\ UNCHANGED << env, src, pc, run, ctl, workers, result, errTask, src0, dst0,
                  faults, removed, prev >>

Next ==
  \/ Enumerate
  \/ Filter
  \/ \E w \in Workers, i \in 1..Len(toProcess) : Start(w, i)
  \/ \E w \in Workers : MkParent(w)
  \/ \E w \in Workers : Check2(w)
  \/ \E w \in Workers : Rename(w)
  \/ \E w \in Workers : Check3(w)
  \/ \E w \in Workers : Copy(w)
  \/ \E w \in Workers : Copying(w)
  \/ \E w \in Workers : Remove(w)
  \/ \E w \in Workers : Signal(w)
  \/ Finish
  \/ NextRun
  \/ \E p \in Paths, e \in {File(ExtData), Dir} : ExtWrite(p, e)

Spec == Init /\ [][Next]_vars

(* ------------------------------ typing --------------------------------- *)
TypeOK ==
  /\ WellFormed(src) /\ WellFormed(dst)
  /\ pc \in {"idle", "enumerated", "dispatch", "returned"}
  /\ pos \in 0..Len(toProcess)
  /\ ext \in 0..MaxExt /\ faults \in 0..MaxFaults
  /\ total = Len(tasks)
  /\ skipped = Len(tasks) - Len(toProcess) \/ pc \in {"idle", "enumerated"}
  /\ Len(hist) = Len(results)
  /\ \A i \in 1..Len(hist) :
       /\ hist[i].calls \in 0..1
       /\ hist[i].via \in {"none", "skip1", "call", "fallback", "copyFailed"}
       /\ hist[i].seen \in [k : Kinds, d : Seq({"src", "a", "b", "x", "old", "ext"})]
            \cup {None}
       /\ hist[i].dirErr \in BOOLEAN /\ hist[i].delErr \in BOOLEAN

(* ------------------------------ claims --------------------------------- *)
Returned == pc = "returned"
Targets == { tasks[i] : i \in 1..Len(tasks) }
Dispatched == { toProcess[i] : i \in 1..Len(toProcess) }
\* no other writer has acted and no I/O fault was injected
Quiet == ext = 0 /\ faults = 0
\* nothing beneath the destination root when the run began
NoCollision == \A p \in Paths \ {Root} : ~Exists(dst0, p)
Beneath(fs) == { p \in Paths \ {Root} : Exists(fs, p) }

\* C1 (as claimed): when a run has returned, every destination entry that was
\* there when it began, at a path an enumerated task targets, is unchanged,
\* and its task was removed by the filter (it was not dispatched).
C1_NoOverwriteSkipped ==
  Returned =>
    \A p \in Targets :
      Exists(dst0, p) => dst[p] = dst0[p] /\ p \notin Dispatched

\* C2 (as claimed): when the first run returns success on a destination with
\* no colliding entries (no other writer, no injected fault), the destination
\* holds every source file with its content, every source directory, and
\* nothing else.
C2_Completeness ==
  (Returned /\ run = 1 /\ result = "ok" /\ Quiet /\ NoCollision
     /\ IsDir(src0, Root)) =>
    \A p \in Paths \ {Root} :
      /\ IsFile(src0, p) => dst[p] = File(SrcData(p))
      /\ IsDir(src0, p) => IsDir(dst, p)
      /\ src0[p].k \in {"none", "other"} => ~Exists(dst, p)

\* C3 (as claimed): a second run after a successful first one, with no other
\* writers, processes nothing and skips as many items as the first run
\* created (the first run on a destination that held nothing; the items being
\* the entries beneath the root: the root's own task is left out of both
\* counts).
C3_Idempotency ==
  (Returned /\ run = 2 /\ prev.result = "ok" /\ prev.fresh /\ Quiet) =>
    /\ Len(toProcess) = 0
    /\ pos = 0
    /\ Cardinality((Targets \ Dispatched) \ {Root}) = prev.created

\* C3 (amended): a second run after a successful first one, with no other
\* writers and a source it can read, fails with InvalidSource if the first run removed the source root;
\* otherwise it succeeds, dispatches no file task (every file still in the
\* source has its destination and is dropped by the filter), leaves every
\* destination file as it was, and its skip count is the number of files and
\* directories still in the source (the root included) whose destination
\* exists.
C3_SecondRun ==
  (Returned /\ run = 2 /\ prev.result = "ok" /\ ext = 0
     /\ result # "EnumerationError") =>
    IF ~Exists(src0, Root)
    THEN result = "InvalidSource"
    ELSE /\ result = "ok"
         /\ \A p \in Dispatched : ~IsFile(src0, p)
         /\ \A p \in Paths : IsFile(dst0, p) => dst[p] = dst0[p]
         /\ skipped = Cardinality({ p \in Paths :
                        src0[p].k \in {"dir", "file"} /\ Exists(dst0, p) })

\* a second run that skipped a file the first run left in the source
C3_Witness ==
  /\ Returned /\ run = 2 /\ prev.result = "ok" /\ ext = 0
  /\ result = "ok"
  /\ \E p \in Paths : IsFile(src0, p) /\ p \in Targets /\ p \notin Dispatched
  /\ skipped # prev.created + 1

\* C4 (as claimed): after a run in which every dispatched task succeeded, on a
\* source of files and directories and a destination without collisions, with
\* no other writer and no fault, the source root is gone.
C4_SourceRootRemoved ==
  (Returned /\ run = 1 /\ result = "ok" /\ Len(toProcess) > 0 /\ Quiet
     /\ NoCollision /\ \A p \in Paths : src0[p].k # "other") =>
    ~Exists(src, Root)

\* C5: the source root that was there when the run began is gone only if the
\* run dispatched tasks, every one of them returned Ok, the run returned
\* success, and nothing was left beneath the root; a run that fails or that
\* short-circuits keeps the root.
C5_RemovedOnlyAfterSuccess ==
  (Exists(src0, Root) /\ ~Exists(src, Root)) =>
    /\ Returned /\ result = "ok"
    /\ Len(toProcess) > 0
    /\ \A i \in 1..Len(results) : results[i] = "ok"
    /\ Beneath(src) = {}
    /\ removed

\* the engine removed the root of a source it moved a file out of
C5_Witness ==
  /\ Exists(src0, Root) /\ ~Exists(src, Root)
  /\ \E p \in Paths : IsFile(src0, p) /\ IsFile(dst, p) /\ ~Exists(dst0, p)

\* C6: a run returns a failure exactly when a dispatched task failed, it
\* returns only when every dispatched task has returned Ok or Err and no
\* worker holds a task, and a file that left the source is at the destination.
C6_PartialFailure ==
  /\ (Returned /\ Len(toProcess) > 0) =>
       (result = "TaskError" <=> Failed # {})
  /\ (Returned /\ result = "TaskError") =>
       /\ \A i \in 1..Len(results) : results[i] \in {"ok", "err"}
       /\ \A w \in Workers : wtask[w] = 0 /\ wpc[w] = "idle"
       /\ \A p \in Paths : (IsFile(src0, p) /\ ~Exists(src, p)) => Exists(dst, p)
       /\ Exists(src, Root)

\* a failed run in which another task moved its file
C6_Witness ==
  /\ Returned /\ result = "TaskError"
  /\ \E i \in 1..Len(results) :
       /\ results[i] = "ok"
       /\ IsFile(src0, toProcess[i])
       /\ ~Exists(src, toProcess[i])
       /\ dst[toProcess[i]] = src0[toProcess[i]]

\* C7: the error a run returns is that of the failed task with the smallest
\* position in the to-process list.
C7_FirstInDispatchOrder ==
  (Returned /\ result = "TaskError") =>
    /\ errTask \in Failed
    /\ \A j \in Failed : errTask <= j

\* two tasks failed, the later one in the list first
C7_Witness ==
  /\ Returned /\ result = "TaskError"
  /\ Len(failOrder) = 2
  /\ failOrder[1] > failOrder[2]
  /\ errTask = failOrder[2]

\* C8 (as claimed): at every moment of a run without other writers and
\* without faults, a destination file at the path of a source file holds the
\* whole content of that file (or was there before the run).
C8_NeverTruncated ==
  Quiet =>
    \A p \in Paths :
      (IsFile(dst, p) /\ IsFile(src0, p)) =>
        dst[p] \in {File(SrcData(p)), File(OldData)}

\* C9 (as claimed): on a source root that is an empty directory (no other
\* writer, no fault), the run returns success and the destination root exists.
C9_EmptySource ==
  (Returned /\ run = 1 /\ Quiet /\ IsDir(src0, Root) /\ Beneath(src0) = {}) =>
    /\ result = "ok"
    /\ Exists(dst, Root)

\* C10 (as claimed): the total of a run is the number of entries beneath the
\* source root, the root not counted.
C10_TotalCount ==
  (pc \in {"enumerated", "dispatch", "returned"} /\ IsDir(src0, Root)
     /\ result # "EnumerationError") =>
    total = Cardinality(Beneath(src0))

Calls == 1..Len(hist)

\* C11 (as claimed): when a run has returned, a task one of whose directory
\* creations failed for a reason other than "already exists" has the outcome
\* Err, and the run returned the task error.
C11_DirCreateErrorFails ==
  Returned =>
    \A i \in Calls :
      hist[i].dirErr => results[i] = "err" /\ result = "TaskError"

\* C12: a task that entered the copy fallback (rename failed, destination
\* absent at line 188) never ends Ok without the destination holding the
\* source's content, whether or not the delete of the source failed; after a
\* delete that did not fail the source file is gone; and a task's outcome is
\* Err exactly when its copy failed.
C12_CrossVolumeFallback ==
  \A i \in Calls :
    LET p == toProcess[i] IN
      /\ (hist[i].via = "fallback" /\ results[i] = "ok") =>
            /\ dst[p] = File(SrcData(p))
            /\ ~hist[i].delErr => ~Exists(src, p)
            /\ hist[i].delErr => src[p] = File(SrcData(p))
      /\ results[i] = "err" <=> hist[i].via = "copyFailed"

\* a fallback task has ended Ok although its delete of the source failed
C12_Witness ==
  \E i \in Calls :
    /\ hist[i].via = "fallback" /\ results[i] = "ok" /\ hist[i].delErr
    /\ dst[toProcess[i]] = File(SrcData(toProcess[i]))

\* C13: once a run whose source root is missing or no directory has left its
\* entry point, it has returned InvalidSource, no task is enumerated or
\* dispatched, and source and destination are as they were.
C13_InvalidSource ==
  (~IsDir(src0, Root) /\ pc # "idle") =>
    /\ Returned /\ result = "InvalidSource"
    /\ tasks = <<>> /\ toProcess = <<>> /\ results = <<>>
    /\ \A w \in Workers : wtask[w] = 0
    /\ src = src0 /\ dst = dst0

\* a first run on a source root that is a file has returned InvalidSource
C13_Witness ==
  run = 1 /\ IsFile(src0, Root) /\ Returned /\ result = "InvalidSource"

\* C14 (as claimed): a step of a worker's rename (line 185) or copy (line 189)
\* never replaces an entry that is at the task's destination path when the
\* step is taken: the entry is the same after the step.
C14_NeverReplaces ==
  [][\A w \in Workers :
       (/\ wpc[w] \in {"rename", "copy"}
        /\ wpc'[w] # wpc[w]
        /\ Exists(dst, TaskOf(w))) =>
         dst'[TaskOf(w)] = dst[TaskOf(w)]]_vars

\* C15 (as claimed): in every state, the content of every file the source
\* held when the run began is at its source path or at its destination path.
C15_NoDataLoss ==
  \A p \in Paths :
    IsFile(src0, p) => src[p] = src0[p] \/ dst[p] = File(SrcData(p))

\* C16 (as claimed): a first run on a valid source, with nothing beneath the
\* destination root, the root's holder present, no other writer and no fault,
\* returns Ok with every source file and directory at the destination,
\* whatever the order in which the workers took the tasks and whichever the
\* directory creator (these being the result and the tree of the schedule
\* that follows the walk order).
C16_ScheduleIndependent ==
  (/\ Returned /\ run = 1 /\ Quiet /\ NoCollision
   /\ IsDir(src0, Root) /\ IsDir(dst0, Up)) =>
    /\ result = "ok"
    /\ \A p \in Paths :
         /\ IsFile(src0, p) => dst[p] = File(SrcData(p))
         /\ IsDir(src0, p) => IsDir(dst, p)

\* C17 (as claimed): once the filter has run (no other writer having acted,
\* so that the destination at filter time is the one the run began with), the
\* to-process list holds exactly the tasks whose destination was absent and
\* the skipped count is the number of tasks whose destination existed.
C17_FilterByExistence ==
  (pc \in {"dispatch", "returned"} /\ ext = 0) =>
    /\ Dispatched = { p \in Targets : ~Exists(dst0, p) }
    /\ skipped = Cardinality({ p \in Targets : Exists(dst0, p) })

Oks == { i \in 1..Len(results) : results[i] = "ok" }

\* C18: in every state the progress counter is the number of tasks whose call
\* has returned Ok (one increment for each, none for a failed task, none
\* lost); when the parallel map has ended it is the number of successful
\* tasks, and it is the length of the to-process list when the run succeeds.
C18_ProgressCounter ==
  /\ pos = Cardinality(Oks)
  /\ (Returned /\ result = "ok") => pos = Len(toProcess)
  /\ (Returned /\ result = "TaskError") => pos = Len(toProcess) - Cardinality(Failed)

\* a run has ended with a failed task and at least two successful ones
C18_Witness ==
  Returned /\ result = "TaskError" /\ pos >= 2 /\ pos = Cardinality(Oks)

\* C19: the result list is as long as the to-process list; no task is handed
\* to move_single_item more than once; a task is held by at most one worker;
\* when the parallel map has ended every task was handed out exactly once
\* and has its outcome at its own position (a task with outcome Err is a file
\* task whose source file is still there).
C19_ExactlyOnce ==
  /\ Len(results) = Len(toProcess)
  /\ \A i \in Calls :
       /\ hist[i].calls <= 1
       /\ hist[i].calls = 1 <=> results[i] # "todo"
       /\ results[i] = "running" <=> \E w \in Workers : wtask[w] = i
       /\ results[i] = "err" => src[toProcess[i]] = File(SrcData(toProcess[i]))
  /\ \A w, v \in Workers : (w # v /\ wtask[w] # 0) => wtask[w] # wtask[v]
  /\ (Returned /\ result \in {"ok", "TaskError"}) =>
       \A i \in 1..Len(toProcess) :
         hist[i].calls = 1 /\ results[i] \in {"ok", "err"}

\* a run over four tasks has ended, the three workers having shared them
C19_Witness ==
  /\ Returned /\ Len(toProcess) = 4
  /\ \A i \in 1..Len(toProcess) : hist[i].calls = 1

\* C20: a call of move_single_item that found its destination present at its
\* first check does not fail, and the task's source entry and destination
\* entry stay what they were (the source root apart, once the run's cleanup
\* has removed it).
C20_SkipAtStart ==
  \A i \in Calls :
    LET p == toProcess[i] IN
      hist[i].via = "skip1" =>
        /\ hist[i].seen.k # "none"
        /\ results[i] \in {"running", "ok"}
        /\ results[i] = "running" =>
             \E w \in Workers : wtask[w] = i /\ wpc[w] = "signal"
        /\ dst[p] = hist[i].seen
        /\ src[p] = src0[p] \/ (p = Root /\ removed)

\* a task whose destination another writer created after the filter was
\* skipped at its first check and has ended Ok
C20_Witness ==
  \E i \in Calls :
    /\ hist[i].via = "skip1" /\ results[i] = "ok" /\ Returned
    /\ hist[i].seen # None /\ dst[toProcess[i]] = hist[i].seen

====
